---- MODULE Spec2Model ----
(***************************************************************************)
(* A model of the Tile class of @here/harp-mapview (lib/Tile.ts): its      *)
(* label store with clone-on-first-mutation, the cached resource info,     *)
(* the recency predicate isVisible, the elevation range and bounding box,  *)
(* the force-has-geometry override and the clear()/dispose() protocol.     *)
(***************************************************************************)
EXTENDS Integers, Sequences, FiniteSets, TLC

(***************************************************************************)
(* Optional values: undefined is the empty tuple, a defined value v is     *)
(* the one-element tuple <<v>>.                                            *)
(***************************************************************************)
Undef == <<>>
Some(v) == <<v>>
OrElse(opt, dflt) == IF opt = Undef THEN dflt ELSE opt[1]

(***************************************************************************)
(* Bounds of the model.                                                    *)
(***************************************************************************)
\* the frame clock (mapView.frameNumber) runs from 0 to MaxFrame
MaxFrame == 12
\* a label store holds at most MaxElements text elements
MaxElements == 2
\* the objects array holds at most MaxObjects root objects
MaxObjects == 2
\* no release counter (dispose() calls on one resource) is pushed beyond this
MaxReleases == 4
\* the elevations an elevation-range update may carry are 0..MaxElevation
MaxElevation == 1
\* at most MaxPendingLoads promises of loadAndDecode() are unsettled at a time
MaxPendingLoads == 2

(***************************************************************************)
(* Program constants.                                                      *)
(***************************************************************************)
\* computeResourceInfo: estimated retained bytes of one TextElement
TextElementSize == 312

(***************************************************************************)
(* The universe of values the operations are called with.                  *)
(***************************************************************************)
Labels == {"a", "b"}
Priorities == {1, 2}
StoreIds == {1, 2, 3}

Geometries == {"g1", "g2", "g3"}
Materials == {"m1", "m2"}
Textures == {"t1", "t2"}
Resources == Geometries \cup Materials \cup Textures

\* The scene objects (THREE.Object3D) that can be pushed to Tile.objects.  o1 and
\* o2 share the material m1; o2 has the child c1.
RootObjects == {"o1", "o2"}
ObjectGeometry(o) ==
    CASE o = "o1" -> "g1"
      [] o = "o2" -> "g2"
      [] OTHER -> "g3"
ObjectMaterials(o) ==
    CASE o = "o1" -> <<"m1">>
      [] o = "o2" -> <<"m1">>
      [] OTHER -> <<"m2">>
ObjectChildren(o) == IF o = "o2" THEN <<"c1">> ELSE <<>>
ObjectVisible(o) == o # "o2"
\* the texture-valued properties of a material
MaterialTextures(m) == IF m = "m1" THEN {"t1"} ELSE {"t2"}

Statuses == {"undefined", "PendingApproximate", "FinalPrecise"}
ElevationRanges ==
    [minElevation : 0..MaxElevation, maxElevation : 0..MaxElevation,
     calculationStatus : Statuses]

\* Oriented boxes are reduced to their position and extent along the up axis.
Box(p, e) == [position |-> p, extents |-> e]

\* The decoded payloads (DecodedTile) a loader can deliver.
DecodedTile(n, box, height, bytes, ids) ==
    [geometries |-> n, boundingBox |-> box, maxGeometryHeight |-> height,
     numBytes |-> bytes, copyrightHolderIds |-> ids]
EmptyTile == DecodedTile(0, Undef, Undef, Undef, Undef)
PlainTile == DecodedTile(1, Undef, Undef, Some(100), Some("here"))
TallTile == DecodedTile(1, Undef, Some(2), Undef, Undef)
BoxedTile == DecodedTile(1, Some(Box(7, 3)), Undef, Undef, Undef)
BoxedEmptyTile == DecodedTile(0, Some(Box(9, 5)), Some(2), Some(100), Undef)
DecodedTiles == {EmptyTile, PlainTile, TallTile, BoxedTile, BoxedEmptyTile}

VARIABLES
    frameNumber,                    \* dataSource.mapView.frameNumber
    frameNumLastRequested,
    objects,                        \* the array Tile.objects
    geoBox,                         \* altitudes of geoBox.southWest / northEast
    m_boundingBox,
    m_worldCenter,
    m_elevationRange,
    m_maxGeometryHeight,
    m_decodedTile,
    copyrightInfo,
    m_disposed,
    m_forceHasGeometry,
    m_tileLoader,
    m_tileGeometryLoader,
    m_animatedExtrusionTileHandler,
    m_textElementGroups,            \* identity of the live label store
    stores,                         \* content of every label store, by identity
    priority,                       \* the priority field of every TextElement
    readerRef,                      \* the stores the renderer still holds (none or one)
    m_textElementsChanged,
    m_pathBlockingElements,
    m_resourceInfo,
    m_ownedTextures,
    disposeCount,                   \* dispose() calls received by each resource
    cancelCount,                    \* cancel() calls received by the tile loader
    geometryLoaderDisposeCount,
    handlerDisposeCount,
    updateRequested,                \* dataSource.requestUpdate() was called
    assertFailed,                   \* an assert() of the class has thrown
    pendingLoads,                   \* loadAndDecode() promises not settled yet
    lastOp                          \* the operation performed last, with its result

visVars == <<frameNumber, frameNumLastRequested>>
boundsVars ==
    <<geoBox, m_boundingBox, m_worldCenter, m_elevationRange, m_maxGeometryHeight>>
payloadVars == <<m_decodedTile, copyrightInfo, updateRequested>>
labelVars ==
    <<m_textElementGroups, stores, readerRef, m_textElementsChanged,
      m_pathBlockingElements>>
loaderVars ==
    <<m_tileLoader, m_tileGeometryLoader, cancelCount, geometryLoaderDisposeCount>>
loadVars == <<pendingLoads>>
handlerVars == <<m_animatedExtrusionTileHandler, handlerDisposeCount>>
vars ==
    <<visVars, boundsVars, payloadVars, labelVars, loaderVars, handlerVars, objects,
      m_disposed, m_forceHasGeometry, priority, m_resourceInfo, m_ownedTextures,
      disposeCount, assertFailed, loadVars, lastOp>>

(***************************************************************************)
(* TextElementGroupPriorityList: a map from priority to the group of       *)
(* elements of that priority.  A store's content is a function from        *)
(* Priorities to the sequence of elements of the group (an empty sequence  *)
(* is an absent group); its identity is its key in the variable stores.    *)
(***************************************************************************)
EmptyStore == [p \in Priorities |-> <<>>]

RECURSIVE SumLen(_, _)
SumLen(s, ps) ==
    IF ps = {} THEN 0
    ELSE LET p == CHOOSE q \in ps : TRUE IN Len(s[p]) + SumLen(s, ps \ {p})

\* count(): the number of elements in all groups
StoreCount(s) == SumLen(s, Priorities)

IndexOf(seq, l) ==
    IF \E i \in 1..Len(seq) : seq[i] = l
    THEN CHOOSE i \in 1..Len(seq) : seq[i] = l /\ \A j \in 1..(i - 1) : seq[j] # l
    ELSE 0
RemoveAt(seq, i) == SubSeq(seq, 1, i - 1) \o SubSeq(seq, i + 1, Len(seq))

\* add(element): appended to the group of the element's priority
StoreAdd(s, l, p) == [s EXCEPT ![p] = Append(@, l)]
\* remove(element) looks only in the group of the element's current priority
StoreHas(s, l, p) == IndexOf(s[p], l) # 0
StoreRemove(s, l, p) == [s EXCEPT ![p] = RemoveAt(@, IndexOf(@, l))]
\* clear(): all groups dropped
StoreClear(s) == EmptyStore
\* clone(): new group objects holding the same element instances
StoreClone(s) == [p \in Priorities |-> s[p]]

\* A store nobody references any more is garbage: its slot is blanked so that its
\* identity can be handed out again.
Collect(st, live, held) ==
    [i \in StoreIds |-> IF i \in {live} \cup held THEN st[i] ELSE EmptyStore]
\* the identity of a newly allocated store: one neither the tile nor the reader holds
FreshStore == CHOOSE i \in StoreIds : i # m_textElementGroups /\ i \notin readerRef

LiveStore == stores[m_textElementGroups]

\* get textElementsChanged
TextElementsChanged == OrElse(m_textElementsChanged, FALSE)
\* hasTextElements()
HasTextElements == StoreCount(LiveStore) > 0

(***************************************************************************)
(* Resource info.                                                          *)
(***************************************************************************)
RECURSIVE SeqToSet(_)
SeqToSet(seq) == IF seq = <<>> THEN {} ELSE {Head(seq)} \cup SeqToSet(Tail(seq))

\* Object3D.traverse: the object itself, then its descendants
TraverseOrder(o) == <<o>> \o ObjectChildren(o)

RECURSIVE SumSize(_)
ResourceSize(r) == IF r \in Geometries THEN 64 ELSE 16
SumSize(rs) ==
    IF rs = {} THEN 0
    ELSE LET r == CHOOSE q \in rs : TRUE IN ResourceSize(r) + SumSize(rs \ {r})

\* every geometry and material reachable from the objects
ReachableResources(objs) ==
    UNION { UNION { {ObjectGeometry(x)} \cup SeqToSet(ObjectMaterials(x))
                    : x \in SeqToSet(TraverseOrder(o)) } : o \in SeqToSet(objs) }

\* MapViewUtils.estimateObject3dSize(object, aggregatedObjSize, visitedObjects):
\* walks the object and its descendants, adds the size of every geometry and
\* material whose id is not in the visited map yet, and records the id.
ObjectResources(o) ==
    UNION { {ObjectGeometry(x)} \cup SeqToSet(ObjectMaterials(x))
            : x \in SeqToSet(TraverseOrder(o)) }
EstimateObject3dSize(o, aggregated) ==
    LET unvisited == ObjectResources(o) \ aggregated.visitedObjects
    IN  [size |-> aggregated.size + SumSize(unvisited),
         visitedObjects |-> aggregated.visitedObjects \cup unvisited]

\* a computation that starts every object with an empty visited map
RECURSIVE EstimateObjectsSeparately(_)
EstimateObjectsSeparately(objs) ==
    IF objs = <<>> THEN 0
    ELSE EstimateObject3dSize(Head(objs), [size |-> 0, visitedObjects |-> {}]).size
         + EstimateObjectsSeparately(Tail(objs))

\* the loop of computeResourceInfo: one aggregate and ONE visited map, created
\* before the loop and handed to the estimate of every object in turn
RECURSIVE AggregateObjects(_, _)
AggregateObjects(objs, aggregated) ==
    IF objs = <<>> THEN aggregated
    ELSE AggregateObjects(Tail(objs), EstimateObject3dSize(Head(objs), aggregated))
EstimateObjects(objs) == AggregateObjects(objs, [size |-> 0, visitedObjects |-> {}]).size

NumVisible(objs) == Cardinality({i \in 1..Len(objs) : ObjectVisible(objs[i])})

ComputeResourceInfo ==
    LET numTextElements == StoreCount(LiveStore)
        payloadBytes == IF m_decodedTile = Undef THEN 0
                        ELSE OrElse(m_decodedTile[1].numBytes, 0)
    IN  [heapSize |-> EstimateObjects(objects) + payloadBytes
                      + numTextElements * TextElementSize,
         gpuSize |-> EstimateObjects(objects),
         num3dObjects |-> NumVisible(objects),
         numTextElements |-> numTextElements,
         numUserTextElements |-> 0]

ResourceInfoRecomputed == ComputeResourceInfo
\* the snapshot getResourceInfo() hands out in the current state
ResourceInfoRead == IF m_resourceInfo = Undef THEN ComputeResourceInfo ELSE m_resourceInfo[1]

(***************************************************************************)
(* Label operations.                                                       *)
(***************************************************************************)
otherThanLabels ==
    <<visVars, boundsVars, payloadVars, loaderVars, handlerVars, objects, m_disposed,
      m_forceHasGeometry, m_resourceInfo, m_ownedTextures, disposeCount, assertFailed,
      loadVars>>

ClonesOnEveryMutation == TRUE
\* the clone condition of addTextElement and removeTextElement
ClonesOnMutation == m_textElementsChanged = Some(FALSE)

\* addTextElement: the element is added to the live store, and only then is the
\* store cloned when the change flag is false.
AddTextElement(l) ==
    /\ StoreCount(LiveStore) < MaxElements
    /\ LET added == [stores EXCEPT
                       ![m_textElementGroups] = StoreAdd(@, l, priority[l])]
           clones == ClonesOnMutation
           live == IF clones THEN FreshStore ELSE m_textElementGroups
           cloned == IF clones
                     THEN [added EXCEPT ![live] = StoreClone(added[m_textElementGroups])]
                     ELSE added
       IN  /\ m_textElementGroups' = live
           /\ stores' = Collect(cloned, live, readerRef)
    /\ m_textElementsChanged' = Some(TRUE)
    /\ lastOp' = "addTextElement"
    /\ UNCHANGED <<otherThanLabels, priority, readerRef, m_pathBlockingElements>>

ChangedDespiteFailedRemove == Some(TRUE)
\* removeTextElement returns false before it touches the change flag
ChangedAfterFailedRemove == m_textElementsChanged

\* removeTextElement: false when the store does not hold the element under its
\* current priority; otherwise removed in place, then cloned as in addTextElement.
RemoveTextElement(l) ==
    /\ IF ~StoreHas(LiveStore, l, priority[l])
       THEN /\ lastOp' = "removeTextElement: false"
            /\ m_textElementsChanged' = ChangedAfterFailedRemove
            /\ UNCHANGED <<m_textElementGroups, stores>>
       ELSE LET removed == [stores EXCEPT
                              ![m_textElementGroups] = StoreRemove(@, l, priority[l])]
                clones == ClonesOnMutation
                live == IF clones THEN FreshStore ELSE m_textElementGroups
                cloned == IF clones
                          THEN [removed EXCEPT
                                  ![live] = StoreClone(removed[m_textElementGroups])]
                          ELSE removed
            IN  /\ m_textElementGroups' = live
                /\ stores' = Collect(cloned, live, readerRef)
                /\ m_textElementsChanged' = Some(TRUE)
                /\ lastOp' = "removeTextElement: true"
    /\ UNCHANGED <<otherThanLabels, priority, readerRef, m_pathBlockingElements>>

\* the state change of clearTextElements(), shared with clear()
ClearTextElementsEffect ==
    IF ~HasTextElements
    THEN UNCHANGED <<m_textElementsChanged, m_pathBlockingElements, stores>>
    ELSE /\ m_textElementsChanged' = Some(TRUE)
         /\ m_pathBlockingElements' = 0
         /\ stores' = [stores EXCEPT ![m_textElementGroups] = StoreClear(@)]

ClearTextElements ==
    /\ ClearTextElementsEffect
    /\ lastOp' = "clearTextElements"
    /\ UNCHANGED <<otherThanLabels, priority, readerRef, m_textElementGroups>>

\* addBlockingElement: the list of path-blocking elements is modelled by its length
AddBlockingElement ==
    /\ m_pathBlockingElements < MaxElements
    /\ m_pathBlockingElements' = m_pathBlockingElements + 1
    /\ lastOp' = "addBlockingElement"
    /\ UNCHANGED <<otherThanLabels, priority, readerRef, m_textElementGroups, stores,
                   m_textElementsChanged>>

\* set textElementsChanged
SetTextElementsChanged(changed) ==
    /\ m_textElementsChanged' = Some(changed)
    /\ lastOp' = "setTextElementsChanged"
    /\ UNCHANGED <<otherThanLabels, priority, readerRef, m_textElementGroups, stores,
                   m_pathBlockingElements>>

\* The renderer reads get textElementGroups and keeps the reference.
ReaderTake ==
    /\ readerRef' = {m_textElementGroups}
    /\ stores' = Collect(stores, m_textElementGroups, readerRef')
    /\ lastOp' = "getTextElementGroups"
    /\ UNCHANGED <<otherThanLabels, priority, m_textElementGroups,
                   m_textElementsChanged, m_pathBlockingElements>>

\* TextElement.priority is a public field the application may change.
SetPriority(l, p) ==
    /\ priority[l] # p
    /\ priority' = [priority EXCEPT ![l] = p]
    /\ lastOp' = "setPriority"
    /\ UNCHANGED <<otherThanLabels, labelVars>>

(***************************************************************************)
(* Resource info operations.                                               *)
(***************************************************************************)
otherThanResourceInfo ==
    <<visVars, boundsVars, payloadVars, labelVars, loaderVars, handlerVars, objects,
      m_disposed, m_forceHasGeometry, priority, m_ownedTextures, disposeCount,
      assertFailed, loadVars>>

GetResourceInfo ==
    /\ m_resourceInfo' = Some(ResourceInfoRead)
    /\ lastOp' = "getResourceInfo"
    /\ UNCHANGED otherThanResourceInfo

\* get memoryUsage
MemoryUsage ==
    /\ m_resourceInfo' = Some(ResourceInfoRead)
    /\ lastOp' = "memoryUsage"
    /\ UNCHANGED otherThanResourceInfo

InvalidateResourceInfo ==
    /\ m_resourceInfo' = Undef
    /\ lastOp' = "invalidateResourceInfo"
    /\ UNCHANGED otherThanResourceInfo

(***************************************************************************)
(* clear() and dispose().                                                  *)
(***************************************************************************)
\* the policy hooks, as the class defines them
ShouldDisposeObjectGeometry(o) == TRUE
ShouldDisposeObjectMaterial(o) == TRUE
ShouldDisposeTextureAlways(t) == TRUE
ShouldDisposeTexture(t) == t \in m_ownedTextures

Bump(cnt, rs) == [r \in Resources |-> IF r \in rs THEN cnt[r] + 1 ELSE cnt[r]]

\* disposeMaterial: the owned textures among the material's properties, then the
\* material itself
DisposeMaterial(cnt, m) ==
    Bump(cnt, {t \in MaterialTextures(m) : ShouldDisposeTexture(t)} \cup {m})

RECURSIVE DisposeMaterials(_, _)
DisposeMaterials(cnt, ms) ==
    IF ms = <<>> THEN cnt
    ELSE DisposeMaterials(DisposeMaterial(cnt, Head(ms)), Tail(ms))

DisposeObject(cnt, o) ==
    LET afterGeometry == IF ShouldDisposeObjectGeometry(o)
                         THEN Bump(cnt, {ObjectGeometry(o)})
                         ELSE cnt
    IN  IF ShouldDisposeObjectMaterial(o)
        THEN DisposeMaterials(afterGeometry, ObjectMaterials(o))
        ELSE afterGeometry

RECURSIVE DisposeObjects(_, _)
DisposeObjects(cnt, os) ==
    IF os = <<>> THEN cnt ELSE DisposeObjects(DisposeObject(cnt, Head(os)), Tail(os))

\* objects.forEach: traverse the root object and its descendants, then the root
\* object once more
RECURSIVE DisposeRoots(_, _)
DisposeRoots(cnt, roots) ==
    IF roots = <<>> THEN cnt
    ELSE DisposeRoots(
             DisposeObject(DisposeObjects(cnt, TraverseOrder(Head(roots))), Head(roots)),
             Tail(roots))

HandlerDisposeCountAfterClear ==
    IF m_animatedExtrusionTileHandler THEN handlerDisposeCount + 1 ELSE handlerDisposeCount

\* the state change of clear(), shared with dispose()
ClearEffect ==
    /\ \A r \in Resources : DisposeRoots(disposeCount, objects)[r] <= MaxReleases
    /\ HandlerDisposeCountAfterClear <= MaxReleases
    /\ disposeCount' = DisposeRoots(disposeCount, objects)
    /\ objects' = <<>>
    /\ handlerDisposeCount' = HandlerDisposeCountAfterClear
    /\ ClearTextElementsEffect
    /\ m_resourceInfo' = Undef

Clear ==
    /\ ClearEffect
    /\ lastOp' = "clear"
    /\ UNCHANGED <<visVars, boundsVars, payloadVars, loaderVars, m_disposed,
                   m_forceHasGeometry, priority, m_ownedTextures, assertFailed,
                   m_animatedExtrusionTileHandler, readerRef, m_textElementGroups,
                   loadVars>>

NeverDisposed == FALSE
\* the early return of dispose()
AlreadyDisposed == m_disposed

\* the value dispose() leaves in frameNumLastRequested
FrameAfterDispose == 0

CancelCountWithoutCancel == cancelCount
\* dispose() cancels the tile loader it finds bound
CancelCountAfterDispose == IF m_tileLoader # Undef THEN cancelCount + 1 ELSE cancelCount

Dispose ==
    /\ IF AlreadyDisposed
       THEN UNCHANGED <<frameNumLastRequested, loaderVars, objects, disposeCount,
                        handlerDisposeCount, m_textElementsChanged,
                        m_pathBlockingElements, stores, m_resourceInfo, m_disposed>>
       ELSE /\ cancelCount' = CancelCountAfterDispose
            /\ m_tileLoader' = Undef
            /\ IF m_tileGeometryLoader
               THEN geometryLoaderDisposeCount' = geometryLoaderDisposeCount + 1
               ELSE UNCHANGED geometryLoaderDisposeCount
            /\ m_tileGeometryLoader' = FALSE
            /\ ClearEffect
            /\ m_disposed' = TRUE
            /\ frameNumLastRequested' = FrameAfterDispose
    /\ lastOp' = "dispose"
    /\ UNCHANGED <<frameNumber, boundsVars, payloadVars, m_forceHasGeometry, priority,
                   m_ownedTextures, assertFailed, m_animatedExtrusionTileHandler,
                   readerRef, m_textElementGroups, loadVars>>

otherThanOwnership ==
    <<visVars, boundsVars, payloadVars, labelVars, m_disposed, m_forceHasGeometry,
      priority, m_resourceInfo, disposeCount, assertFailed, cancelCount,
      geometryLoaderDisposeCount, handlerDisposeCount, loadVars>>

\* objects.push(o): the application and the geometry creator fill the array
AddObject(o) ==
    /\ Len(objects) < MaxObjects
    /\ objects' = Append(objects, o)
    /\ lastOp' = "objects.push"
    /\ UNCHANGED <<otherThanOwnership, m_ownedTextures, m_tileLoader,
                   m_tileGeometryLoader, m_animatedExtrusionTileHandler>>

AddOwnedTexture(t) ==
    /\ m_ownedTextures' = m_ownedTextures \cup {t}
    /\ lastOp' = "addOwnedTexture"
    /\ UNCHANGED <<otherThanOwnership, objects, m_tileLoader, m_tileGeometryLoader,
                   m_animatedExtrusionTileHandler>>

\* set tileLoader
SetTileLoader(loader) ==
    /\ m_tileLoader' = loader
    /\ lastOp' = "setTileLoader"
    /\ UNCHANGED <<otherThanOwnership, objects, m_ownedTextures, m_tileGeometryLoader,
                   m_animatedExtrusionTileHandler>>

\* set tileGeometryLoader
SetTileGeometryLoader(present) ==
    /\ m_tileGeometryLoader' = present
    /\ lastOp' = "setTileGeometryLoader"
    /\ UNCHANGED <<otherThanOwnership, objects, m_ownedTextures, m_tileLoader,
                   m_animatedExtrusionTileHandler>>

\* set animatedExtrusionTileHandler
SetAnimatedExtrusionTileHandler(present) ==
    /\ m_animatedExtrusionTileHandler' = present
    /\ lastOp' = "setAnimatedExtrusionTileHandler"
    /\ UNCHANGED <<otherThanOwnership, objects, m_ownedTextures, m_tileLoader,
                   m_tileGeometryLoader>>

(***************************************************************************)
(* Visibility and recency.                                                 *)
(***************************************************************************)
IsVisibleSameFrameOnly(last, frame) == last >= frame
\* get isVisible, for a last-requested frame and a current frame number
IsVisibleAt(last, frame) == last >= frame - 1
IsVisible == IsVisibleAt(frameNumLastRequested, frameNumber)

otherThanVisibility ==
    <<boundsVars, payloadVars, labelVars, loaderVars, handlerVars, objects, m_disposed,
      m_forceHasGeometry, priority, m_resourceInfo, m_ownedTextures, disposeCount,
      assertFailed, loadVars>>

\* set isVisible
SetIsVisible(visible) ==
    /\ frameNumLastRequested' = IF visible THEN frameNumber ELSE -1
    /\ lastOp' = "setIsVisible"
    /\ UNCHANGED <<frameNumber, otherThanVisibility>>

\* MapView renders a frame: the frame clock advances
NextFrame ==
    /\ frameNumber < MaxFrame
    /\ frameNumber' = frameNumber + 1
    /\ lastOp' = "nextFrame"
    /\ UNCHANGED <<frameNumLastRequested, otherThanVisibility>>

(***************************************************************************)
(* Elevation range, decoded payload and bounding box.                      *)
(***************************************************************************)
Altitude(a) == OrElse(a, 0)
\* projection.projectBox(geoBox, box)
ProjectBox(gb) ==
    Box(Altitude(gb.southWest) + Altitude(gb.northEast),
        Altitude(gb.northEast) - Altitude(gb.southWest))

ElevateGeoBoxWithoutHeight(range, height) ==
    [southWest |-> Some(range.minElevation), northEast |-> Some(range.maxElevation)]
\* elevateGeoBox() for an elevation range and a max geometry height
ElevateGeoBox(range, height) ==
    [southWest |-> Some(range.minElevation),
     northEast |-> Some(range.maxElevation + OrElse(height, 0))]

NeverSameElevationRange(range) == FALSE
\* the no-op guard of set elevationRange
SameElevationRange(range) ==
    /\ range.minElevation = m_elevationRange.minElevation
    /\ range.maxElevation = m_elevationRange.maxElevation
    /\ range.calculationStatus = m_elevationRange.calculationStatus

DecodedBoundingBox == IF m_decodedTile = Undef THEN Undef ELSE m_decodedTile[1].boundingBox

NeverRecomputeOnElevation == FALSE
\* set elevationRange recomputes the bounding box only with a max geometry height
RecomputeOnElevation == m_maxGeometryHeight # Undef

otherThanBounds ==
    <<visVars, labelVars, loaderVars, handlerVars, objects, m_disposed, priority,
      m_ownedTextures, disposeCount, loadVars>>

\* set elevationRange
SetElevationRange(range) ==
    /\ IF SameElevationRange(range)
       THEN UNCHANGED <<m_elevationRange, geoBox, m_boundingBox, assertFailed>>
       ELSE /\ m_elevationRange' = range
            /\ geoBox' = ElevateGeoBox(range, m_maxGeometryHeight)
            /\ IF RecomputeOnElevation
               THEN IF DecodedBoundingBox = Undef
                    THEN /\ m_boundingBox' = ProjectBox(geoBox')
                         /\ UNCHANGED assertFailed
                    ELSE /\ assertFailed' = TRUE
                         /\ UNCHANGED m_boundingBox
               ELSE UNCHANGED <<m_boundingBox, assertFailed>>
    /\ lastOp' = "setElevationRange"
    /\ UNCHANGED <<otherThanBounds, payloadVars, m_worldCenter, m_maxGeometryHeight,
                   m_forceHasGeometry, m_resourceInfo>>

KeepForceHasGeometry(d) == m_forceHasGeometry
\* set decodedTile: a payload without geometries forces hasGeometry
ForceAfterDecodedTile(d) == IF d.geometries = 0 THEN Some(TRUE) ELSE m_forceHasGeometry

ProjectedBoxAfterDecodedTile(d) == ProjectBox(geoBox')
\* set decodedTile: updateBoundingBox(decodedTile.boundingBox), after elevateGeoBox()
BoxAfterDecodedTile(d) ==
    IF d.boundingBox # Undef THEN d.boundingBox[1] ELSE ProjectBox(geoBox')

HeightDespiteBox(d) == Some(OrElse(d.maxGeometryHeight, 0))
\* set decodedTile: a payload with its own bounding box leaves no max geometry height
HeightAfterDecodedTile(d) ==
    IF d.boundingBox # Undef THEN Undef ELSE Some(OrElse(d.maxGeometryHeight, 0))

\* the state change of set decodedTile, shared with the settlement of load()
DecodedTileEffect(decodedTile) ==
    /\ m_decodedTile' = decodedTile
    /\ m_resourceInfo' = Undef
    /\ IF decodedTile = Undef
       THEN UNCHANGED <<m_forceHasGeometry, boundsVars, copyrightInfo, updateRequested>>
       ELSE LET d == decodedTile[1] IN
            /\ m_forceHasGeometry' = ForceAfterDecodedTile(d)
            /\ m_maxGeometryHeight' = HeightAfterDecodedTile(d)
            /\ geoBox' = ElevateGeoBox(m_elevationRange, m_maxGeometryHeight')
            /\ m_boundingBox' = BoxAfterDecodedTile(d)
            /\ m_worldCenter' = IF d.boundingBox # Undef
                                THEN m_boundingBox'.position
                                ELSE m_worldCenter
            /\ copyrightInfo' = IF d.copyrightHolderIds # Undef
                                THEN d.copyrightHolderIds
                                ELSE copyrightInfo
            /\ updateRequested' = TRUE
            /\ UNCHANGED m_elevationRange

\* set decodedTile
SetDecodedTile(decodedTile) ==
    /\ DecodedTileEffect(decodedTile)
    /\ lastOp' = "setDecodedTile"
    /\ UNCHANGED <<otherThanBounds, assertFailed>>

ResourceInfoKept == m_resourceInfo
\* removeDecodedTile() ends with invalidateResourceInfo()
ResourceInfoAfterRemove == Undef

RemoveDecodedTile ==
    /\ m_decodedTile' = Undef
    /\ m_resourceInfo' = ResourceInfoAfterRemove
    /\ lastOp' = "removeDecodedTile"
    /\ UNCHANGED <<otherThanBounds, boundsVars, copyrightInfo, updateRequested,
                   m_forceHasGeometry, assertFailed>>

HasGeometryWhenForced == m_forceHasGeometry # Undef \/ Len(objects) # 0
\* get hasGeometry
HasGeometry == IF m_forceHasGeometry = Undef THEN Len(objects) # 0 ELSE m_forceHasGeometry[1]

ForceHasGeometry(value) ==
    /\ m_forceHasGeometry' = value
    /\ lastOp' = "forceHasGeometry"
    /\ UNCHANGED <<otherThanBounds, boundsVars, payloadVars, m_resourceInfo, assertFailed>>

(***************************************************************************)
(* load() and the settlement of the promise of tileLoader.loadAndDecode(). *)
(***************************************************************************)
otherThanLoad ==
    <<visVars, labelVars, loaderVars, handlerVars, objects, m_disposed, priority,
      m_ownedTextures, disposeCount, assertFailed>>

\* load(): without a tile loader nothing is started
Load ==
    /\ IF m_tileLoader = Undef
       THEN UNCHANGED pendingLoads
       ELSE /\ pendingLoads < MaxPendingLoads
            /\ pendingLoads' = pendingLoads + 1
    /\ lastOp' = "load"
    /\ UNCHANGED <<otherThanLoad, boundsVars, payloadVars, m_forceHasGeometry,
                   m_resourceInfo>>

\* how the promise of loadAndDecode() can settle: fulfilled with a loader state,
\* or rejected with a loader state or with any other reason
Fulfilments == {"then: Ready", "then: Loaded"}
Rejections == {"catch: Canceled", "catch: Failed", "catch: error"}

\* assert(condition) of harp-utils throws when the condition is false
assertThrows(condition) == ~condition

AssignsOnEverySettlement(outcome) == TRUE
\* the then-callback asserts state === Ready and assigns the loader's payload; a
\* throwing assert rejects the chained promise and ends in the catch-callback,
\* which assigns nothing
AssignsDecodedTile(outcome) ==
    outcome \in Fulfilments /\ ~assertThrows(outcome = "then: Ready")

\* the promise settles and the callbacks of load() run;
\* loaderDecodedTile is tileLoader.decodedTile at that moment
Settle(outcome, loaderDecodedTile) ==
    /\ pendingLoads > 0
    /\ pendingLoads' = pendingLoads - 1
    /\ IF AssignsDecodedTile(outcome)
       THEN DecodedTileEffect(loaderDecodedTile)
       ELSE UNCHANGED <<boundsVars, payloadVars, m_forceHasGeometry, m_resourceInfo>>
    /\ lastOp' = outcome
    /\ UNCHANGED otherThanLoad

(***************************************************************************)
(* The state after construction.                                           *)
(***************************************************************************)
Init ==
    /\ frameNumber = 0
    /\ frameNumLastRequested = -1
    /\ objects = <<>>
    /\ geoBox = [southWest |-> Undef, northEast |-> Undef]
    /\ m_boundingBox = ProjectBox(geoBox)
    /\ m_worldCenter = m_boundingBox.position
    /\ m_elevationRange =
           [minElevation |-> 0, maxElevation |-> 0, calculationStatus |-> "undefined"]
    /\ m_maxGeometryHeight = Undef
    /\ m_decodedTile = Undef
    /\ copyrightInfo = Undef
    /\ m_disposed = FALSE
    /\ m_forceHasGeometry = Undef
    /\ m_tileLoader = Undef
    /\ m_tileGeometryLoader = FALSE
    /\ m_animatedExtrusionTileHandler = FALSE
    /\ m_textElementGroups = 1
    /\ stores = [i \in StoreIds |-> EmptyStore]
    /\ priority = [l \in Labels |-> 1]
    /\ readerRef = {}
    /\ m_textElementsChanged = Undef
    /\ m_pathBlockingElements = 0
    /\ m_resourceInfo = Undef
    /\ m_ownedTextures = {}
    /\ disposeCount = [r \in Resources |-> 0]
    /\ cancelCount = 0
    /\ geometryLoaderDisposeCount = 0
    /\ handlerDisposeCount = 0
    /\ updateRequested = FALSE
    /\ assertFailed = FALSE
    /\ pendingLoads = 0
    /\ lastOp = "new"

(***************************************************************************)
(* Specifications.  Each one runs the operations of one concern of the     *)
(* class, with the complete effect of every operation; the state of the    *)
(* other concerns stays as constructed.                                    *)
(***************************************************************************)
OptionalBooleans == {Undef, Some(TRUE), Some(FALSE)}
OptionalDecodedTiles == {Undef} \cup {Some(d) : d \in DecodedTiles}

\* the label store and its reader
NextLabels ==
    \/ \E l \in Labels : AddTextElement(l)
    \/ \E l \in Labels : RemoveTextElement(l)
    \/ ClearTextElements
    \/ \E changed \in BOOLEAN : SetTextElementsChanged(changed)
    \/ ReaderTake
    \/ \E l \in Labels, p \in Priorities : SetPriority(l, p)
    \/ Clear
SpecLabels == Init /\ [][NextLabels]_vars

\* the resource info cache and everything it is computed from
NextResources ==
    \/ AddTextElement("a")
    \/ RemoveTextElement("a")
    \/ ClearTextElements
    \/ \E o \in RootObjects : AddObject(o)
    \/ \E d \in {Undef, Some(EmptyTile), Some(PlainTile)} : SetDecodedTile(d)
    \/ RemoveDecodedTile
    \/ Clear
    \/ GetResourceInfo
    \/ MemoryUsage
    \/ InvalidateResourceInfo
SpecResources == Init /\ [][NextResources]_vars

\* the frame clock and the recency bookkeeping
NextVisibility ==
    \/ NextFrame
    \/ \E visible \in BOOLEAN : SetIsVisible(visible)
    \/ Dispose
SpecVisibility == Init /\ [][NextVisibility]_vars

\* ownership and release of resources
NextDisposal ==
    \/ \E o \in RootObjects : AddObject(o)
    \/ \E t \in Textures : AddOwnedTexture(t)
    \/ SetTileLoader(Some("loader"))
    \/ SetTileGeometryLoader(TRUE)
    \/ SetAnimatedExtrusionTileHandler(TRUE)
    \/ Clear
    \/ Dispose
SpecDisposal == Init /\ [][NextDisposal]_vars

\* elevation range, payload and bounding box
NextBounds ==
    \/ \E range \in ElevationRanges : SetElevationRange(range)
    \/ \E d \in OptionalDecodedTiles : SetDecodedTile(d)
    \/ RemoveDecodedTile
SpecBounds == Init /\ [][NextBounds]_vars

\* the force-has-geometry override under every operation that could touch it
NextGeometry ==
    \/ \E d \in OptionalDecodedTiles : SetDecodedTile(d)
    \/ RemoveDecodedTile
    \/ \E value \in OptionalBooleans : ForceHasGeometry(value)
    \/ AddObject("o1")
    \/ AddTextElement("a")
    \/ RemoveTextElement("a")
    \/ Clear
    \/ Dispose
SpecGeometry == Init /\ [][NextGeometry]_vars

\* load() and its settlement, among the operations on payload, bounds, override
\* and resource info that a settlement could disturb
NextLoad ==
    \/ \E loader \in {Undef, Some("loader")} : SetTileLoader(loader)
    \/ Load
    \/ \E outcome \in Fulfilments \cup Rejections, d \in OptionalDecodedTiles :
           Settle(outcome, d)
    \/ \E range \in ElevationRanges : SetElevationRange(range)
    \/ \E d \in OptionalDecodedTiles : SetDecodedTile(d)
    \/ RemoveDecodedTile
    \/ \E value \in OptionalBooleans : ForceHasGeometry(value)
    \/ GetResourceInfo
SpecLoad == Init /\ [][NextLoad]_vars

\* dispose() while promises of load() are unsettled
NextLoadDisposal ==
    \/ \E loader \in {Undef, Some("loader")} : SetTileLoader(loader)
    \/ Load
    \/ \E outcome \in Fulfilments \cup Rejections, d \in OptionalDecodedTiles :
           Settle(outcome, d)
    \/ \E value \in OptionalBooleans : ForceHasGeometry(value)
    \/ Dispose
SpecLoadDisposal == Init /\ [][NextLoadDisposal]_vars

\* clear() on a tile holding renderables, labels, blocking elements and a cached
\* resource info
NextClear ==
    \/ \E o \in RootObjects : AddObject(o)
    \/ \E l \in Labels : AddTextElement(l)
    \/ AddBlockingElement
    \/ GetResourceInfo
    \/ ClearTextElements
    \/ Clear
SpecClear == Init /\ [][NextClear]_vars

Next ==
    \/ NextLabels
    \/ NextResources
    \/ NextVisibility
    \/ NextDisposal
    \/ NextBounds
    \/ NextGeometry
    \/ NextLoad
    \/ NextLoadDisposal
    \/ NextClear
Spec == Init /\ [][Next]_vars

(***************************************************************************)
(* Properties.                                                             *)
(***************************************************************************)
\* every variable but lastOp
tileState ==
    <<visVars, boundsVars, payloadVars, labelVars, loaderVars, handlerVars, objects,
      m_disposed, m_forceHasGeometry, priority, m_resourceInfo, m_ownedTextures,
      disposeCount, assertFailed, loadVars>>

LabelMutations == {"addTextElement", "removeTextElement: true"}

\* C1: when the reader holds the live store and has reset the change flag to false,
\* the next addTextElement or successful removeTextElement makes another store the
\* live one and leaves the content of the store the reader holds as it was.
C1_ReaderStoreUntouched ==
    [][ ( /\ readerRef = {m_textElementGroups}
          /\ m_textElementsChanged = Some(FALSE)
          /\ lastOp' \in LabelMutations )
        => ( /\ m_textElementGroups' # m_textElementGroups
             /\ stores'[m_textElementGroups] = stores[m_textElementGroups] ) ]_vars

ContentChanges ==
    {"addTextElement", "removeTextElement: true", "clearTextElements", "clear",
     "setDecodedTile", "removeDecodedTile"}
ResourceReads == {"getResourceInfo", "memoryUsage"}

\* C2: a getResourceInfo() or memoryUsage read that directly follows a change of the
\* label store, a clear() or a change of the decoded payload yields the snapshot of
\* the state it is read in, never one cached before the change.
C2_ReadAfterChangeIsFresh ==
    [][ (lastOp \in ContentChanges /\ lastOp' \in ResourceReads)
        => m_resourceInfo' = Some(ComputeResourceInfo') ]_vars

\* C3: once dispose() has completed the tile is not visible at the current frame
\* number nor at any later one.
C3_DisposedNeverVisible ==
    lastOp = "dispose" =>
        \A frame \in frameNumber..MaxFrame : ~IsVisibleAt(frameNumLastRequested, frame)

\* C4: dispose() on a disposed tile changes no state of the tile: no further
\* cancel() of a loader, dispose() of the geometry loader or release of a resource.
C4_DisposeIdempotent ==
    [][ (m_disposed /\ lastOp' = "dispose") => UNCHANGED tileState ]_vars
\* a second dispose() found a loader, a geometry loader and objects that were set
\* after the first one, and left them alone
C4_Witness ==
    /\ lastOp = "dispose"
    /\ m_disposed
    /\ m_tileLoader # Undef
    /\ m_tileGeometryLoader
    /\ Len(objects) > 0

\* C5: a texture is released only if it was registered with addOwnedTexture.
C5_OnlyOwnedTexturesReleased ==
    \A t \in Textures : disposeCount[t] > 0 => t \in m_ownedTextures
\* clear() has released the material m2 and the owned texture t1, but not the
\* texture t2 that m2 references and the tile does not own
C5_Witness ==
    /\ disposeCount["m2"] > 0
    /\ disposeCount["t1"] > 0
    /\ disposeCount["t2"] = 0
    /\ "t2" \notin m_ownedTextures

\* C6: with the current frame number N the tile is visible when it was last
\* requested at N-1 or N and not visible when it was last requested at N-2 or
\* before; requested at frame 10, it is visible at 10 and 11 and not at 12.
C6_RecencyPredicate ==
    /\ frameNumLastRequested \in {frameNumber - 1, frameNumber} => IsVisible
    /\ frameNumLastRequested <= frameNumber - 2 => ~IsVisible
    /\ (frameNumLastRequested = 10 /\ frameNumber \in {10, 11}) => IsVisible
    /\ (frameNumLastRequested = 10 /\ frameNumber = 12) => ~IsVisible
C6_Witness == frameNumLastRequested = 10 /\ frameNumber = 12 /\ ~IsVisible

\* C7: while a payload with an explicit bounding box is assigned, the world bounding
\* box is that box, whatever elevation-range updates have been made since.
C7_ExplicitBoxKept ==
    DecodedBoundingBox # Undef => m_boundingBox = DecodedBoundingBox[1]
\* an effective elevation-range update was made with an explicit box assigned
C7_Witness ==
    /\ DecodedBoundingBox # Undef
    /\ lastOp = "setElevationRange"
    /\ m_elevationRange.maxElevation = 1
    /\ geoBox.northEast = Some(1)

\* C8: an elevation-range update carrying the current min, max and status leaves the
\* geographic box, the world bounding box and the elevation range unchanged.
C8_SameRangeIsNoOp ==
    [][ (lastOp' = "setElevationRange" /\ m_elevationRange' = m_elevationRange)
        => UNCHANGED <<geoBox, m_boundingBox, m_elevationRange>> ]_vars
\* an update carrying the range the tile was constructed with was made on the new
\* tile: the geographic box is still without altitudes
C8_Witness ==
    /\ lastOp = "setElevationRange"
    /\ geoBox.southWest = Undef
    /\ geoBox.northEast = Undef

ForceCall(values) == lastOp' = "forceHasGeometry" /\ m_forceHasGeometry' \in values
ZeroGeometryAssigned ==
    /\ lastOp' = "setDecodedTile"
    /\ m_decodedTile' # Undef
    /\ m_decodedTile'[1].geometries = 0

\* C9, as stated: after a payload without geometries is assigned hasGeometry is true,
\* and it stays true until forceHasGeometry(undefined) is called.
C9_TrueUntilForceUndefined ==
    [][ /\ ZeroGeometryAssigned => HasGeometry'
        /\ (m_forceHasGeometry = Some(TRUE) /\ ~ForceCall({Undef})) => HasGeometry' ]_vars

\* C9, amended: after a payload without geometries is assigned hasGeometry is true,
\* and it stays true until forceHasGeometry is called with undefined or false.
C9_TrueUntilForceCalled ==
    [][ /\ ZeroGeometryAssigned => HasGeometry'
        /\ (m_forceHasGeometry = Some(TRUE) /\ ~ForceCall({Undef, Some(FALSE)}))
           => (m_forceHasGeometry' = Some(TRUE) /\ HasGeometry') ]_vars
\* a payload without geometries was assigned and later removed, and the tile was
\* disposed: it has no objects and still reports geometry
C9_Witness ==
    /\ m_forceHasGeometry = Some(TRUE)
    /\ updateRequested
    /\ m_decodedTile = Undef
    /\ m_disposed
    /\ lastOp = "dispose"
    /\ objects = <<>>
    /\ HasGeometry

\* C10: while the change flag is true, addTextElement (like a successful
\* removeTextElement) keeps the live store the same instance and the flag true: no
\* second clone before the reader resets the flag.
C10_NoSecondClone ==
    [][ (m_textElementsChanged = Some(TRUE) /\ lastOp' \in LabelMutations)
        => ( /\ m_textElementGroups' = m_textElementGroups
             /\ m_textElementsChanged' = Some(TRUE) ) ]_vars
\* two elements were added after a reset, and a single clone was made
C10_Witness ==
    /\ lastOp = "addTextElement"
    /\ readerRef # {}
    /\ readerRef # {m_textElementGroups}
    /\ StoreCount(LiveStore) = StoreCount(stores[CHOOSE i \in readerRef : TRUE]) + 1

(***************************************************************************)
(* Claims C11 .. C20.                                                      *)
(***************************************************************************)
\* the geometries and materials that more than one root object reaches
SharedResources(objs) ==
    {r \in ReachableResources(objs) :
        \E i, j \in 1..Len(objs) :
            /\ objs[i] # objs[j]
            /\ r \in ObjectResources(objs[i]) \cap ObjectResources(objs[j])}

\* C11: the resource information computed for the tile counts every geometry
\* and material reachable from its renderables exactly once, also one that
\* two renderables share: the object part of the sizes is the sum over the
\* distinct resources.
C11_SharedCountedOnce ==
    /\ ComputeResourceInfo.gpuSize = SumSize(ReachableResources(objects))
    /\ ComputeResourceInfo.heapSize =
           SumSize(ReachableResources(objects))
           + (IF m_decodedTile = Undef THEN 0 ELSE OrElse(m_decodedTile[1].numBytes, 0))
           + StoreCount(LiveStore) * TextElementSize

C11_Witness ==
    /\ SharedResources(objects) # {}
    /\ lastOp = "getResourceInfo"
    /\ m_resourceInfo = Some(ComputeResourceInfo)
    /\ m_resourceInfo[1].gpuSize
         < EstimateObject3dSize(objects[1], [size |-> 0, visitedObjects |-> {}]).size
           + EstimateObject3dSize(objects[2], [size |-> 0, visitedObjects |-> {}]).size

\* C12: after dispose() the tile holds no decoded payload, whatever payload
\* had been assigned before.
C12_DisposeReleasesPayload == lastOp = "dispose" => m_decodedTile = Undef

\* C13: when dispose() has run, every texture registered with addOwnedTexture
\* has been disposed, also one that no material of a renderable references.
C13_OwnedTexturesReleased ==
    (lastOp = "dispose" /\ m_disposed) => \A t \in m_ownedTextures : disposeCount[t] > 0

\* C14: a settlement of the load() promise other than fulfilment with Ready
\* (rejection with Canceled, with Failed or with any other reason, or a
\* fulfilment whose state fails the assertion) assigns no payload and leaves
\* payload, bounds, override and resource-info cache as they were, raises
\* nothing in the tile, and a later load() starts the loader again; the payload
\* changes in a settlement only when it is the fulfilment with Ready.
C14_FailedLoadChangesNothing ==
    [][ /\ (lastOp' \in Rejections \cup {"then: Loaded"})
            => UNCHANGED <<payloadVars, boundsVars, m_forceHasGeometry, m_resourceInfo,
                           assertFailed, m_tileLoader>>
        /\ (lastOp' \in Fulfilments \cup Rejections /\ m_decodedTile' # m_decodedTile)
            => lastOp' = "then: Ready"
        /\ (lastOp \in Rejections /\ lastOp' = "load" /\ m_tileLoader # Undef)
            => pendingLoads' = pendingLoads + 1 ]_vars

\* a load was rejected with Failed while a payload, a cached resource info and
\* an override were in place, and they still are
C14_Witness ==
    /\ lastOp = "catch: Failed"
    /\ m_decodedTile # Undef
    /\ m_resourceInfo # Undef
    /\ m_forceHasGeometry = Some(FALSE)
    /\ m_tileLoader # Undef

\* C15: in every reachable state the altitudes of the geographic box are the
\* elevation range extended by the max geometry height: the south-west
\* altitude is minElevation and the north-east altitude is maxElevation plus
\* the max geometry height (0 when undefined).  An altitude the box never
\* received reads as 0.
C15_GeoBoxAltitudes ==
    /\ Altitude(geoBox.southWest) = m_elevationRange.minElevation
    /\ Altitude(geoBox.northEast) =
           m_elevationRange.maxElevation + OrElse(m_maxGeometryHeight, 0)

\* an elevation update arrived after a payload that declared a geometry height
C15_Witness ==
    /\ lastOp = "setElevationRange"
    /\ m_maxGeometryHeight # Undef
    /\ m_maxGeometryHeight[1] > 0
    /\ m_elevationRange.maxElevation > 0
    /\ geoBox.northEast = Some(m_elevationRange.maxElevation + m_maxGeometryHeight[1])

\* C16 as stated: whenever the assigned payload supplies no bounding box of its
\* own (or there is no payload), the world bounding box is the projection of
\* the current geographic box.
C16_BoxFollowsGeoBox ==
    DecodedBoundingBox = Undef => m_boundingBox = ProjectBox(geoBox)

\* C16: whenever a max geometry height is established, the world bounding box
\* is the projection of the current geographic box; an elevation update made
\* while none is established (before any payload, or after a payload with its
\* own box) leaves the bounding box as it was.
C16_BoxFollowsGeoBoxWithHeight ==
    [][ /\ m_maxGeometryHeight' # Undef => m_boundingBox' = ProjectBox(geoBox')
        /\ (lastOp' = "setElevationRange" /\ m_maxGeometryHeight = Undef)
            => UNCHANGED m_boundingBox ]_vars

\* an effective elevation update with a max geometry height moved the box
C16_Witness ==
    /\ lastOp = "setElevationRange"
    /\ m_maxGeometryHeight # Undef
    /\ m_elevationRange.minElevation > 0
    /\ m_boundingBox = ProjectBox(geoBox)
    /\ m_boundingBox.position > OrElse(m_maxGeometryHeight, 0)

\* C17: whenever the max geometry height is defined, the assigned payload (if
\* any) has no bounding box of its own, and the assertion of the elevation
\* setter has never failed.
C17_HeightExcludesPayloadBox ==
    /\ m_maxGeometryHeight # Undef => DecodedBoundingBox = Undef
    /\ ~assertFailed

\* the elevation setter recomputed the box with a payload assigned
C17_Witness ==
    /\ lastOp = "setElevationRange"
    /\ m_maxGeometryHeight # Undef
    /\ m_decodedTile # Undef
    /\ m_elevationRange.maxElevation > 0
    /\ m_boundingBox = ProjectBox(geoBox)

\* C18: after clear() the renderable set is empty, the tile holds no labels,
\* the list of blocking elements is empty and the resource info is
\* invalidated, from whatever state clear() was called.
C18_ClearEmptiesEverything ==
    lastOp = "clear" =>
        /\ objects = <<>>
        /\ ~HasTextElements
        /\ m_pathBlockingElements = 0
        /\ m_resourceInfo = Undef

C20_HasGeometryDerivation ==
    /\ m_forceHasGeometry = Some(FALSE) => ~HasGeometry
    /\ m_forceHasGeometry = Some(TRUE) => HasGeometry
    /\ m_forceHasGeometry = Undef => (HasGeometry <=> objects # <<>>)

\* the override is false while the tile holds a renderable
C20_Witness ==
    /\ m_forceHasGeometry = Some(FALSE)
    /\ objects # <<>>
    /\ ~HasGeometry

(***************************************************************************)
(* Claims C21 .. C28.                                                      *)
(***************************************************************************)
Invalidations == {"invalidateResourceInfo", "setDecodedTile", "removeDecodedTile", "clear"}

\* C21: a getResourceInfo() or memoryUsage read that finds a cached snapshot
\* leaves it in place and returns it, whatever happened to renderables and
\* labels since it was computed; a read that finds none computes it from the
\* current state; and a cached snapshot is never replaced by another one, it
\* can only be dropped by an invalidation (direct, payload assignment,
\* removeDecodedTile, clear).
C21_CachedSnapshotReturned ==
    [][ /\ (lastOp' \in ResourceReads /\ m_resourceInfo # Undef)
            => m_resourceInfo' = m_resourceInfo
        /\ (lastOp' \in ResourceReads /\ m_resourceInfo = Undef)
            => m_resourceInfo' = Some(ComputeResourceInfo)
        /\ (m_resourceInfo # Undef /\ m_resourceInfo' # m_resourceInfo)
            => (m_resourceInfo' = Undef /\ lastOp' \in Invalidations) ]_vars

\* memoryUsage was read from a snapshot cached before the renderables changed
C21_Witness ==
    /\ lastOp = "memoryUsage"
    /\ m_resourceInfo # Undef
    /\ m_resourceInfo[1].heapSize # ComputeResourceInfo.heapSize
    /\ objects # <<>>

\* C22: removeDecodedTile(), and the assignment of no payload, drop the payload
\* and invalidate the resource info, and leave geographic box, bounding box,
\* world centre, elevation range, max geometry height, override and copyright
\* info as they were, without a request for an update to the data source.
C22_RemoveKeepsBounds ==
    [][ (\/ lastOp' = "removeDecodedTile"
         \/ (lastOp' = "setDecodedTile" /\ m_decodedTile' = Undef))
        => /\ m_decodedTile' = Undef
           /\ m_resourceInfo' = Undef
           /\ UNCHANGED <<boundsVars, m_forceHasGeometry, copyrightInfo,
                          updateRequested>> ]_vars

\* a payload that declared a geometry height and forced hasGeometry was removed
C22_Witness ==
    /\ lastOp = "removeDecodedTile"
    /\ m_decodedTile = Undef
    /\ m_resourceInfo = Undef
    /\ m_maxGeometryHeight # Undef
    /\ m_boundingBox # Box(0, 0)
    /\ m_forceHasGeometry = Some(TRUE)

RemovalResults == {"removeTextElement: true", "removeTextElement: false"}

\* C23: a removeTextElement call that returns false leaves the live store with
\* its identity and content and the change flag with its value; the call
\* returns false whenever the store holds no element under the priority the
\* element carries now, and a call that returns true has taken one element out.
C23_FailedRemovalChangesNothing ==
    [][ /\ lastOp' = "removeTextElement: false"
            => UNCHANGED <<m_textElementGroups, stores, m_textElementsChanged>>
        /\ (lastOp' \in RemovalResults
                /\ \A l \in Labels : ~StoreHas(LiveStore, l, priority[l]))
            => lastOp' = "removeTextElement: false"
        /\ lastOp' = "removeTextElement: true"
            => StoreCount(stores'[m_textElementGroups']) = StoreCount(LiveStore) - 1
      ]_vars

\* a removal failed on a store that holds an element whose priority was changed
\* after it was added, while the change flag was reset
C23_Witness ==
    /\ lastOp = "removeTextElement: false"
    /\ m_textElementsChanged = Some(FALSE)
    /\ \E l \in Labels : \E p \in Priorities :
           p # priority[l] /\ StoreHas(LiveStore, l, p)
    /\ \A l \in Labels : ~StoreHas(LiveStore, l, priority[l])

\* C24: once dispose() has run, the settlement of a load() promise that was
\* pending at that moment changes neither the decoded payload nor the bounds
\* nor the override of the tile, and asks the data source for no update.
C24_DisposalWinsOverLoad ==
    [][ (lastOp = "dispose" /\ m_disposed /\ lastOp' \in Fulfilments \cup Rejections)
        => UNCHANGED <<m_decodedTile, boundsVars, m_forceHasGeometry,
                       updateRequested>> ]_vars

\* C25: one clear() call releases every geometry, every material and every
\* owned texture at most once, also those of a root object and those shared by
\* several renderables.
C25_NoDoubleRelease ==
    [][ lastOp' = "clear"
        => \A r \in Resources : disposeCount'[r] <= disposeCount[r] + 1 ]_vars

\* C26: right after isVisible = true at frame N the getter is true at N and at
\* N + 1; and a tile whose last requested frame is the value written by
\* isVisible = false, which is also the value of a never requested tile, is
\* not visible at the current frame nor at any later one.
C26_SetterGetterAgree ==
    /\ (lastOp = "setIsVisible" /\ frameNumLastRequested = frameNumber)
        => /\ IsVisibleAt(frameNumLastRequested, frameNumber)
           /\ IsVisibleAt(frameNumLastRequested, frameNumber + 1)
    /\ frameNumLastRequested = -1
        => \A frame \in frameNumber..MaxFrame : ~IsVisibleAt(frameNumLastRequested, frame)

\* C27: a handler that a clear() has disposed is not disposed again by the
\* clear() or dispose() that follows.
C27_HandlerDisposedOnce ==
    [][ (/\ lastOp = "clear"
         /\ m_animatedExtrusionTileHandler
         /\ lastOp' \in {"clear", "dispose"})
        => handlerDisposeCount' = handlerDisposeCount ]_vars

\* the centre the constructor computes: the position of the projected flat box
ConstructedCenter == ProjectBox([southWest |-> Undef, northEast |-> Undef]).position

\* C28: while the assigned payload supplies a bounding box the world centre is
\* that box's position, and while the bounding box is projected from the
\* geographic box (a max geometry height is established) the world centre is
\* the centre computed at construction.
C28_CenterFollowsBounds ==
    /\ DecodedBoundingBox # Undef => m_worldCenter = DecodedBoundingBox[1].position
    /\ m_maxGeometryHeight # Undef => m_worldCenter = ConstructedCenter

====
